---- MODULE Spec2Model ----
(***************************************************************************)
(* PII Guardian Pro backend: reversible field encryption                   *)
(* (backend/utils/encrypt.py), placeholder substitution                    *)
(* (backend/utils/pdf_utils.py), detection (backend/utils/                 *)
(* pii_detection.py) and the request handlers over the in-memory document  *)
(* registry (backend/main.py).                                             *)
(*                                                                         *)
(* Text is a sequence of words; a word is a sequence of strings, so that   *)
(* literal words, placeholder ids and placeholder markers are values of    *)
(* one kind.  Byte strings produced by an encoder are tagged tuples        *)
(* <<encoding, payload>>; a decoder undoes only its own tag.               *)
(***************************************************************************)
EXTENDS Integers, Sequences, FiniteSets, TLC

VARIABLES
    documents_store,  \* main.py:41   id -> document record (ids are 1..Len)
    fs,               \* the uploads directory: path -> file content
    sessions,         \* number of encrypt_pii_fields calls made by the handlers
    pending,          \* FileResponses returned by a handler and not yet sent
    last,             \* request and outcome of the most recent handler run
    cipher            \* harness state of the field-cipher functions

vars == <<documents_store, fs, sessions, pending, last, cipher>>

-----------------------------------------------------------------------------
(* Bounds of the model *)

MaxFields == 2        \* longest enumerated field list of the cipher harness
LongFields == 1001    \* longest field list (constant lists, past index 999)
MaxDocs == 2          \* uploads accepted
MaxSessions == 2      \* encrypt_pii_fields calls made by the handlers
MaxPending == 1       \* unsent FileResponses

-----------------------------------------------------------------------------
(* Encodings: base64 / urlsafe base64 / utf-8 / json *)

B64Encode(x) == <<"b64", x>>

UrlsafeB64Encode(x) == <<"urlb64", x>>

B64Valid(s) == Len(s) = 2 /\ s[1] = "b64"

B64Decode(s) == s[2]

JsonDump(x) == <<"json", x>>

JsonLoad(s) == s[2]

-----------------------------------------------------------------------------
(* Exceptions and results *)

Ok(v) == [kind |-> "ok", msg |-> <<>>, value |-> <<v>>]

Raise(kind, msg) == [kind |-> kind, msg |-> msg, value |-> <<>>]

IsOk(r) == r.kind = "ok"

ValueOf(r) == r.value[1]

\* `"Invalid passkey" in str(e)`: the message is a sequence of the literal
\* parts it was formatted from
InvalidPasskeyPhrases ==
    {"Invalid passkey", "Invalid passkey or corrupted data", "Invalid passkey provided"}

HasInvalidPasskeyWholeMessage(msg) == msg = <<"Invalid passkey">>

HasInvalidPasskey(msg) == \E i \in 1..Len(msg) : msg[i] \in InvalidPasskeyPhrases

-----------------------------------------------------------------------------
(* Python dict: insertion-ordered sequence of <<key, value>> items *)

DictKeys(d) == {d[j][1] : j \in 1..Len(d)}

DictGet(d, k) == d[CHOOSE j \in 1..Len(d) : d[j][1] = k][2]

\* a.update(b): values of b replace those of a in place, new keys are appended
DictUpdate(a, b) ==
    LET ka == DictKeys(a)
        kb == DictKeys(b)
    IN  [j \in 1..Len(a) |->
            IF a[j][1] \in kb THEN <<a[j][1], DictGet(b, a[j][1])>> ELSE a[j]]
        \o SelectSeq(b, LAMBDA e : e[1] \notin ka)

\* the dict left by `for j in lo..hi: d[items[j][1]] = items[j][2]`, by halves
RECURSIVE DictFromItems(_, _, _)
DictFromItems(items, lo, hi) ==
    IF lo > hi THEN <<>>
    ELSE IF lo = hi THEN <<items[lo]>>
    ELSE LET mid == (lo + hi) \div 2
         IN  DictUpdate(DictFromItems(items, lo, mid), DictFromItems(items, mid + 1, hi))

-----------------------------------------------------------------------------
(* encrypt.py: key derivation and Fernet *)

NoSalt == <<>>

FixedSalt == UrlsafeB64Encode(<<"piiguardian_salt_2024">>)

generate_key_from_passkey(passkey, salt) ==
    LET s == IF salt = NoSalt THEN FixedSalt ELSE salt
    IN  <<UrlsafeB64Encode([kdf |-> "PBKDF2HMAC-SHA256", passkey |-> passkey, salt |-> s]), s>>

\* Fernet(key).encrypt(data): authenticated, with a random iv
FernetEncrypt(key, data, iv) == [key |-> key, iv |-> iv, data |-> data, mac |-> "ok"]

FernetValid(key, token) == token.key = key /\ token.mac = "ok"

Digit(d) ==
    CASE d = 0 -> "0" [] d = 1 -> "1" [] d = 2 -> "2" [] d = 3 -> "3" [] d = 4 -> "4"
      [] d = 5 -> "5" [] d = 6 -> "6" [] d = 7 -> "7" [] d = 8 -> "8" [] d = 9 -> "9"

RECURSIVE Decimal(_)
Decimal(n) == IF n < 10 THEN <<Digit(n)>> ELSE Append(Decimal(n \div 10), Digit(n % 10))

PadWidth == 3

ZeroPad(d) == IF Len(d) >= PadWidth THEN d ELSE [j \in 1..(PadWidth - Len(d)) |-> "0"] \o d

Format03dTruncated(n) == ZeroPad(Decimal(n % 1000))

\* f"{n:03d}": zero-padded to at least three digits, never truncated
Format03d(n) == ZeroPad(Decimal(n))

\* f"ENCRYPTED_FIELD_{i+1:03d}", n = i + 1
PlaceholderId(n) == <<"ENCRYPTED_FIELD_">> \o Format03d(n)

generate_placeholder_text(placeholder_id, pii_type) ==
    <<"[">> \o placeholder_id \o <<":", pii_type, "]">>

EncryptedField(field, n, key, rnd) ==
    [type |-> field.type, value |-> field.value,
     original_value |-> field.original_value,
     confidence |-> field.confidence, location |-> field.location,
     detection_method |-> field.detection_method,
     placeholder_id |-> PlaceholderId(n),
     encrypted_value |-> B64Encode(FernetEncrypt(key, field.original_value, <<rnd, n>>)),
     encrypted |-> TRUE]

MappingEntry(ef) ==
    [original_value |-> ef.original_value, encrypted_value |-> ef.encrypted_value,
     type |-> ef.type, location |-> ef.location]

\* rnd stands for the random bytes Fernet draws during this call
encrypt_pii_fields(pii_fields, passkey, rnd) ==
    LET ks == generate_key_from_passkey(passkey, NoSalt)
        encrypted_fields ==
            [j \in 1..Len(pii_fields) |-> EncryptedField(pii_fields[j], j, ks[1], rnd)]
        items == [j \in 1..Len(pii_fields) |->
                     <<encrypted_fields[j].placeholder_id, MappingEntry(encrypted_fields[j])>>]
    IN  [encrypted_fields |-> encrypted_fields,
         field_mapping |-> DictFromItems(items, 1, Len(items)),
         salt |-> B64Encode(ks[2]),
         encryption_method |-> "AES-256-Fernet"]

MetadataSaltUndecoded(encoded) == encoded

\* salt = base64.b64decode(encrypted_metadata["salt"])
MetadataSalt(encoded) == B64Decode(encoded)

\* the inner try of the loop: b64decode, fernet.decrypt, decode
FieldDecrypts(key, field_data) ==
    /\ B64Valid(field_data.encrypted_value)
    /\ FernetValid(key, B64Decode(field_data.encrypted_value))

DecryptLoopSkipFailed(fm, key) ==
    LET good == SelectSeq(fm, LAMBDA e : FieldDecrypts(key, e[2]))
    IN  Ok([j \in 1..Len(good) |-> <<good[j][1], B64Decode(good[j][2].encrypted_value).data>>])

DecryptLoop(fm, key) ==
    IF \E j \in 1..Len(fm) : ~FieldDecrypts(key, fm[j][2])
    THEN Raise("ValueError", <<"Invalid passkey or corrupted data">>)
    ELSE Ok([j \in 1..Len(fm) |-> <<fm[j][1], B64Decode(fm[j][2].encrypted_value).data>>])

decrypt_pii_fields(encrypted_metadata, passkey) ==
    LET salt == MetadataSalt(encrypted_metadata.salt)
        key == generate_key_from_passkey(passkey, salt)[1]
        r == DecryptLoop(encrypted_metadata.field_mapping, key)
    IN  IF IsOk(r) THEN r
        ELSE IF HasInvalidPasskey(r.msg)
             THEN Raise("ValueError", <<"Invalid passkey provided">>)
             ELSE Raise("Exception", <<"Failed to decrypt PII fields: ">> \o r.msg)

MinPasskeyLen == 8

validate_passkey_strength(passkey) == Len(passkey) >= MinPasskeyLen

-----------------------------------------------------------------------------
(* pii_detection.py *)

\* the vocabulary of the documents: a plain word, an SSN, and an identifier
\* that the passport and the driver-license patterns both match
Plain == <<"the">>
Ssn == <<"555-12-3456">>
IdNo == <<"AB1234567">>

Words == {Plain, Ssn, IdNo}

PII_PATTERNS ==
    <<"ssn", "phone", "email", "credit_card", "date_of_birth", "zip_code",
      "ip_address", "passport", "driver_license">>

\* pattern.finditer on one word of the vocabulary
PatternMatches(pii_type, word) ==
    \/ pii_type = "ssn" /\ word = Ssn
    \/ pii_type \in {"passport", "driver_license"} /\ word = IdNo

_format_pii_type(pii_type) ==
    CASE pii_type = "ssn" -> "Social Security Number"
      [] pii_type = "phone" -> "Phone Number"
      [] pii_type = "email" -> "Email Address"
      [] pii_type = "credit_card" -> "Credit Card Number"
      [] pii_type = "date_of_birth" -> "Date of Birth"
      [] pii_type = "zip_code" -> "ZIP Code"
      [] pii_type = "ip_address" -> "IP Address"
      [] pii_type = "passport" -> "Passport Number"
      [] pii_type = "driver_license" -> "Driver License"

\* confidence in hundredths
_get_pattern_confidence(pii_type) ==
    CASE pii_type = "ssn" -> 95
      [] pii_type = "phone" -> 85
      [] pii_type = "email" -> 95
      [] pii_type = "credit_card" -> 90
      [] pii_type = "date_of_birth" -> 75
      [] pii_type = "zip_code" -> 70
      [] pii_type = "ip_address" -> 80
      [] pii_type = "passport" -> 85
      [] pii_type = "driver_license" -> 80

MIN_CONFIDENCE == 60

\* value[-4:], value[:2], value[-2:] on the vocabulary
Last4(word) == IF word = Ssn THEN "3456" ELSE IF word = IdNo THEN "4567" ELSE "the"
First2(word) == IF word = Ssn THEN "55" ELSE IF word = IdNo THEN "AB" ELSE "th"
Last2(word) == IF word = Ssn THEN "56" ELSE IF word = IdNo THEN "67" ELSE "he"

_mask_value(word, pii_type) ==
    IF pii_type \in {"ssn", "Social Security Number"}
    THEN IF Len(word[1]) >= 4 THEN <<"***-**-", Last4(word)>> ELSE <<"None">>
    ELSE IF pii_type \in {"phone", "Phone Number"}
    THEN IF Len(word[1]) >= 4 THEN <<"***-***-", Last4(word)>> ELSE <<"None">>
    ELSE IF pii_type \in {"credit_card", "Credit Card Number"}
    THEN IF Len(word[1]) >= 4 THEN <<"****-****-****-", Last4(word)>> ELSE <<"None">>
    ELSE IF Len(word[1]) > 4 THEN <<First2(word), "***", Last2(word)>>
    ELSE <<"***">>

PatternField(pii_type, word, pos) ==
    [type |-> _format_pii_type(pii_type),
     value |-> _mask_value(word, pii_type),
     original_value |-> word,
     confidence |-> _get_pattern_confidence(pii_type),
     location |-> [page |-> 1, start |-> pos],
     encrypted |-> FALSE,
     detection_method |-> "regex_pattern"]

\* the sub-sequence of s at the indices of keep, in order
RECURSIVE KeepIndices(_, _, _)
KeepIndices(s, keep, j) ==
    IF j > Len(s) THEN <<>>
    ELSE (IF j \in keep THEN <<s[j]>> ELSE <<>>) \o KeepIndices(s, keep, j + 1)

_filter_and_deduplicate_pii(pii_list) ==
    LET filtered == SelectSeq(pii_list, LAMBDA p : p.confidence >= MIN_CONFIDENCE)
        first == {j \in 1..Len(filtered) :
                    \A i \in 1..(j - 1) :
                        <<filtered[i].type, filtered[i].original_value>>
                            # <<filtered[j].type, filtered[j].original_value>>}
    IN  KeepIndices(filtered, first, 1)

\* the regex part of detect_pii: patterns in table order, matches in text
\* order (the vocabulary holds no span the NER model labels)
detect_pii(text) ==
    LET n == Len(text)
        np == Len(PII_PATTERNS)
        cand == [k \in 1..(np * n) |->
                    [pat |-> PII_PATTERNS[((k - 1) \div n) + 1], pos |-> ((k - 1) % n) + 1]]
        hits == SelectSeq(cand, LAMBDA c : PatternMatches(c.pat, text[c.pos]))
    IN  _filter_and_deduplicate_pii(
            [k \in 1..Len(hits) |-> PatternField(hits[k].pat, text[hits[k].pos], hits[k].pos)])

-----------------------------------------------------------------------------
(* The uploads directory.  A path is the sequence of the parts of its file  *)
(* name, the suffix last; a file is [kind, body, sid], sid being the number *)
(* of the encrypt_pii_fields call that produced it (0 for an upload).       *)

Exists(files, path) == path \in DOMAIN files

FsWrite(files, path, file) ==
    [q \in (DOMAIN files) \cup {path} |-> IF q = path THEN file ELSE files[q]]

PdfFile(text, sid) == [kind |-> "pdf", body |-> text, sid |-> sid]

JsonFile(data, sid) == [kind |-> "json", body |-> JsonDump(data), sid |-> sid]

\* Path(p).stem
Stem(path) == SubSeq(path, 1, Len(path) - 1)

\* document.filename.lower().endswith('.pdf')
IsPdfName(filename) == filename[Len(filename)] \in {".pdf", ".PDF"}

\* Path(original_path).parent / f"encrypted_{Path(original_path).stem}.pdf"
EncryptedPath(original_path) == <<"encrypted_">> \o Stem(original_path) \o <<".pdf">>

\* encrypted_path.with_suffix('.json')
MetadataPath(encrypted_path) == Stem(encrypted_path) \o <<".json">>

\* f"decrypted_{Path(encrypted_path).stem.replace('encrypted_', '')}.pdf"
DecryptedPath(encrypted_path) ==
    <<"decrypted_">> \o SelectSeq(Stem(encrypted_path), LAMBDA t : t # "encrypted_")
        \o <<".pdf">>

-----------------------------------------------------------------------------
(* ocr.py and the rendering backend (PyMuPDF) on a one-page document *)

\* process_ocr: a page with a text layer yields its text; a page without one
\* takes the OCR branch, which raises (ocr.py uses io without importing it)
process_ocr(file) ==
    IF file.body # <<>> THEN Ok(file.body)
    ELSE Raise("Exception", <<"Failed to extract text from PDF: ", "name 'io' is not defined">>)

\* page.search_for(needle) for each replacement in turn, each hit getting a
\* redaction annotation carrying the replacement text
RedactAnnots(text, replacements) ==
    LET n == Len(text)
        cand == [k \in 1..(Len(replacements) * n) |->
                    [r |-> ((k - 1) \div n) + 1, pos |-> ((k - 1) % n) + 1]]
        hits == SelectSeq(cand, LAMBDA c : text[c.pos] = replacements[c.r][1])
    IN  [k \in 1..Len(hits) |-> [pos |-> hits[k].pos, text |-> replacements[hits[k].r][2]]]

RECURSIVE Flatten(_)
Flatten(ss) == IF ss = <<>> THEN <<>> ELSE Head(ss) \o Flatten(Tail(ss))

\* page.apply_redactions(): the text under an annotation is removed and the
\* text of every annotation on that spot is written there
apply_redactions(text, annots) ==
    Flatten([i \in 1..Len(text) |->
                LET here == SelectSeq(annots, LAMBDA a : a.pos = i)
                IN  IF here = <<>> THEN <<text[i]>>
                    ELSE [k \in 1..Len(here) |-> here[k].text]])

\* lines 33-51 of generate_encrypted_pdf
RedactedText(text, encryption_metadata) ==
    LET ef == encryption_metadata.encrypted_fields
        repl == [j \in 1..Len(ef) |->
                    <<ef[j].original_value,
                      generate_placeholder_text(ef[j].placeholder_id, ef[j].type)>>]
    IN  apply_redactions(text, RedactAnnots(text, repl))

\* lines 99-116 of generate_decrypted_pdf
RestoredText(text, encryption_metadata, decrypted_mapping) ==
    LET repl == [j \in 1..Len(decrypted_mapping) |->
                    <<generate_placeholder_text(
                          decrypted_mapping[j][1],
                          DictGet(encryption_metadata.field_mapping, decrypted_mapping[j][1]).type),
                      decrypted_mapping[j][2]>>]
    IN  apply_redactions(text, RedactAnnots(text, repl))

\* generate_encrypted_pdf; fail = "metadata_write" is an I/O error raised by
\* open(metadata_path, 'w') after the redacted PDF was saved.  The result
\* carries the files left behind together with the value or the exception.
generate_encrypted_pdf(files, original_path, pii_fields, passkey, rnd, fail) ==
    LET encryption_metadata == encrypt_pii_fields(pii_fields, passkey, rnd)
        encrypted_path == EncryptedPath(original_path)
        saved == FsWrite(files, encrypted_path,
                         PdfFile(RedactedText(files[original_path].body, encryption_metadata), rnd))
    IN  IF fail = "metadata_write"
        THEN [files |-> saved,
              res |-> Raise("Exception", <<"Failed to generate encrypted PDF: ", "I/O error">>)]
        ELSE [files |-> FsWrite(saved, MetadataPath(encrypted_path),
                                JsonFile(encryption_metadata, rnd)),
              res |-> Ok(encrypted_path)]

generate_decrypted_pdf(files, encrypted_path, passkey) ==
    LET metadata_path == MetadataPath(encrypted_path)
    IN  IF ~Exists(files, metadata_path)
        THEN [files |-> files,
              res |-> Raise("Exception", <<"Failed to generate decrypted PDF: ",
                                           "Encryption metadata not found">>)]
        ELSE LET encryption_metadata == JsonLoad(files[metadata_path].body)
                 dec == decrypt_pii_fields(encryption_metadata, passkey)
                 decrypted_path == DecryptedPath(encrypted_path)
             IN  IF IsOk(dec)
                 THEN [files |-> FsWrite(files, decrypted_path,
                                         PdfFile(RestoredText(files[encrypted_path].body,
                                                              encryption_metadata, ValueOf(dec)),
                                                 files[encrypted_path].sid)),
                       res |-> Ok(decrypted_path)]
                 ELSE IF dec.kind = "ValueError"
                 THEN [files |-> files,
                       res |-> IF HasInvalidPasskey(dec.msg)
                               THEN Raise("ValueError", <<"Invalid passkey provided">>)
                               ELSE dec]
                 ELSE [files |-> files,
                       res |-> Raise("Exception",
                                     <<"Failed to generate decrypted PDF: ">> \o dec.msg)]

-----------------------------------------------------------------------------
(* Inputs *)

Passkeys == {"correct-horse", "wrong-horse", "short1"}

StrongPasskeys == {p \in Passkeys : Len(p) >= MinPasskeyLen}

\* a field record of each kind the detector yields on the vocabulary
FieldPool ==
    {PatternField("ssn", Ssn, 1), PatternField("passport", IdNo, 1),
     PatternField("driver_license", IdNo, 1)}

\* uploaded file names and one-page contents: an SSN twice, an identifier
\* two patterns match, no PII at all, and a scan without a text layer
Filenames == {<<"x", ".pdf">>, <<"encrypted_", "x", ".pdf">>, <<"x", ".txt">>}

Contents == {<<Ssn, Plain, Ssn>>, <<IdNo, Plain>>, <<Plain>>, <<>>}

FailPoints == {"none", "metadata_write"}

None == <<>>

CipherIdle ==
    [phase |-> "idle", text |-> <<>>, fields |-> <<>>, passkey |-> "", files |-> <<>>,
     tampered |-> {}, dpasskey |-> "", result |-> None, restored |-> None]

SeqsUpTo(S, n) == UNION {[1..k -> S] : k \in 0..n}

\* every list of up to MaxFields fields, on every content; and constant
\* lists whose length runs up to LongFields, on a page the value is not on
HarnessInputs ==
    (Contents \X SeqsUpTo(FieldPool, MaxFields))
        \cup {<<<<Plain>>, [j \in 1..k |-> PatternField("ssn", Ssn, 1)]>> :
                 k \in (LongFields - 2)..LongFields}

-----------------------------------------------------------------------------
(* main.py: the request handlers.  Each is a coroutine without an await, so *)
(* it runs to its return without another handler in between; a FileResponse *)
(* it returns is sent, and its file read, later (SendResponse).             *)

\* str(HTTPException(status, detail))
HttpError(status, detail) == Raise("HTTPException", <<status, ": ", detail>>)

\* a handler run: the request's target and passkey form field, and the status
\* code of the response the client gets back (detail is the text that goes
\* with it)
OutcomeOf(op, doc, passkey, code, detail) ==
    <<[op |-> op, doc |-> doc, passkey |-> passkey, code |-> code]>>

\* a handler run of a route without a passkey field
Outcome(op, doc, code, detail) == OutcomeOf(op, doc, "", code, detail)

upload_document ==
    \E filename \in Filenames : \E content \in Contents :
        /\ Len(documents_store) < MaxDocs
        /\ IF ~IsPdfName(filename)
           THEN \* the HTTPException(400) is caught by the handler's own except
                /\ last' = Outcome("upload", 0, 500,
                                   <<"Upload failed: ", "400", ": ", "Only PDF files are supported">>)
                /\ UNCHANGED <<documents_store, fs>>
           ELSE LET doc_id == Len(documents_store) + 1
                    doc_record == [id |-> doc_id, filename |-> filename,
                                   original_path |-> filename, status |-> "uploaded",
                                   detected_pii |-> None, encrypted_path |-> None]
                IN  /\ fs' = FsWrite(fs, filename, PdfFile(content, 0))
                    /\ documents_store' = Append(documents_store, doc_record)
                    /\ last' = Outcome("upload", doc_id, 200, <<>>)
        /\ UNCHANGED <<sessions, pending, cipher>>

analyze_document ==
    \E document_id \in 1..MaxDocs :
        /\ IF document_id \notin DOMAIN documents_store
           THEN /\ last' = Outcome("analyze", document_id, 500,
                                   <<"Analysis failed: ", "404", ": ", "Document not found">>)
                /\ UNCHANGED documents_store
           ELSE LET doc == documents_store[document_id]
                    extracted_text == process_ocr(fs[doc.original_path])
                IN  /\ IF IsOk(extracted_text)
                       THEN /\ documents_store' =
                                 [documents_store EXCEPT ![document_id] =
                                    [doc EXCEPT !.detected_pii = <<detect_pii(ValueOf(extracted_text))>>,
                                                !.status = "analyzed"]]
                            /\ last' = Outcome("analyze", document_id, 200, <<>>)
                       ELSE /\ documents_store' =
                                 [documents_store EXCEPT ![document_id].status = "error"]
                            /\ last' = Outcome("analyze", document_id, 500,
                                               <<"Analysis failed: ">> \o extracted_text.msg)
        /\ UNCHANGED <<fs, sessions, pending, cipher>>

EncryptRejected(document_id, passkey, e) ==
    /\ last' = OutcomeOf("encrypt", document_id, passkey, 500, <<"Encryption failed: ">> \o e.msg)
    /\ UNCHANGED <<documents_store, fs, sessions, pending>>

encrypt_document ==
    \E document_id \in 1..MaxDocs : \E passkey \in Passkeys : \E fail \in FailPoints :
        /\ IF document_id \notin DOMAIN documents_store
           THEN EncryptRejected(document_id, passkey, HttpError("404", "Document not found"))
           ELSE LET doc == documents_store[document_id]
                IN  /\ IF doc.detected_pii = None \/ doc.detected_pii = <<<<>>>>
                       THEN EncryptRejected(document_id, passkey,
                                            HttpError("400", "Document must be analyzed first"))
                       ELSE IF Len(passkey) < MinPasskeyLen
                       THEN EncryptRejected(document_id, passkey,
                                            HttpError("400", "Passkey must be at least 8 characters"))
                       ELSE LET rnd == sessions + 1
                                g == generate_encrypted_pdf(fs, doc.original_path,
                                                            doc.detected_pii[1], passkey, rnd, fail)
                            IN  /\ rnd <= MaxSessions
                                /\ fs' = g.files
                                /\ sessions' = rnd
                                /\ IF IsOk(g.res)
                                   THEN /\ Len(pending) < MaxPending
                                        /\ documents_store' =
                                             [documents_store EXCEPT ![document_id] =
                                                [doc EXCEPT !.encrypted_path = <<ValueOf(g.res)>>,
                                                            !.status = "encrypted"]]
                                        /\ pending' = Append(pending,
                                                [op |-> "encrypt", doc |-> document_id,
                                                 path |-> ValueOf(g.res)])
                                        /\ last' = OutcomeOf("encrypt", document_id, passkey, 200, <<>>)
                                   ELSE /\ last' = OutcomeOf("encrypt", document_id, passkey, 500,
                                                           <<"Encryption failed: ">> \o g.res.msg)
                                        /\ UNCHANGED <<documents_store, pending>>
        /\ UNCHANGED cipher

DecryptRejected(document_id, passkey, code, detail) ==
    /\ last' = OutcomeOf("decrypt", document_id, passkey, code, detail)
    /\ UNCHANGED <<documents_store, fs, pending>>

decrypt_document ==
    \E document_id \in 1..MaxDocs : \E passkey \in Passkeys :
        /\ IF document_id \notin DOMAIN documents_store
           THEN DecryptRejected(document_id, passkey, 500,
                        <<"Decryption failed: ">> \o HttpError("404", "Document not found").msg)
           ELSE LET doc == documents_store[document_id]
                IN  /\ IF doc.encrypted_path = None
                       THEN DecryptRejected(document_id, passkey, 500,
                                <<"Decryption failed: ">>
                                    \o HttpError("404", "Encrypted document not found").msg)
                       ELSE LET g == generate_decrypted_pdf(fs, doc.encrypted_path[1], passkey)
                            IN  IF IsOk(g.res)
                                THEN /\ Len(pending) < MaxPending
                                     /\ fs' = g.files
                                     /\ documents_store' =
                                          [documents_store EXCEPT ![document_id].status = "decrypted"]
                                     /\ pending' = Append(pending,
                                             [op |-> "decrypt", doc |-> document_id,
                                              path |-> ValueOf(g.res)])
                                     /\ last' = OutcomeOf("decrypt", document_id, passkey, 200, <<>>)
                                ELSE IF g.res.kind = "ValueError"
                                THEN IF HasInvalidPasskey(g.res.msg)
                                     THEN DecryptRejected(document_id, passkey, 401,
                                                          <<"Invalid passkey">>)
                                     ELSE DecryptRejected(document_id, passkey, 400, g.res.msg)
                                ELSE DecryptRejected(document_id, passkey, 500,
                                                     <<"Decryption failed: ">> \o g.res.msg)
        /\ UNCHANGED <<sessions, cipher>>

\* the server sends a returned FileResponse: it reads the file at the path
\* only now, and the operation is over
SendResponse ==
    \E k \in 1..Len(pending) :
        /\ Exists(fs, pending[k].path)
        /\ pending' = [j \in 1..(Len(pending) - 1) |->
                          IF j < k THEN pending[j] ELSE pending[j + 1]]
        /\ UNCHANGED <<documents_store, fs, sessions, last, cipher>>

\* GET /api/documents reads the registry and changes nothing: its response
\* in a state is {"documents": list(documents_store.values())}
get_documents == [documents |-> documents_store]

Init ==
    /\ documents_store = <<>>
    /\ fs = <<>>
    /\ sessions = 0
    /\ pending = <<>>
    /\ last = None
    /\ cipher = CipherIdle

Next ==
    \/ upload_document
    \/ analyze_document
    \/ encrypt_document
    \/ decrypt_document
    \/ SendResponse

Spec == Init /\ [][Next]_vars

-----------------------------------------------------------------------------
(* Harness of the cipher and the substitution: generate_encrypted_pdf on a  *)
(* one-file directory, then decrypt_pii_fields and generate_decrypted_pdf   *)
(* on what it left, with a ciphertext of the sidecar possibly altered in    *)
(* between.                                                                 *)

HarnessSource == <<"doc", ".pdf">>

HarnessArtifact == EncryptedPath(HarnessSource)

HarnessSidecar == MetadataPath(HarnessArtifact)

HarnessRestored == DecryptedPath(HarnessArtifact)

\* the metadata as generate_decrypted_pdf loads it
CipherMeta == JsonLoad(cipher.files[HarnessSidecar].body)

TamperKinds == {"bits", "base64"}

\* a ciphertext after alteration: a flipped bit breaks the token's HMAC,
\* a damaged encoding breaks b64decode
Tampered(encrypted_value, how) ==
    IF how = "bits"
    THEN B64Encode([B64Decode(encrypted_value) EXCEPT !.mac = "bad"])
    ELSE <<"b64-damaged", B64Decode(encrypted_value)>>

CipherEncrypt ==
    /\ cipher.phase = "input"
    /\ LET g == generate_encrypted_pdf(cipher.files, HarnessSource, cipher.fields,
                                       cipher.passkey, 1, "none")
       IN  cipher' = [cipher EXCEPT !.phase = "encrypted", !.files = g.files]
    /\ UNCHANGED <<documents_store, fs, sessions, pending, last>>

CipherTamper ==
    /\ cipher.phase = "encrypted"
    /\ cipher.tampered = {}
    /\ \E how \in TamperKinds :
       \E j \in 1..Len(CipherMeta.field_mapping) :
          /\ j <= MaxFields + 1
          /\ LET m == CipherMeta
                 e == m.field_mapping[j]
                 e2 == <<e[1], [e[2] EXCEPT !.encrypted_value = Tampered(@, how)]>>
                 m2 == [m EXCEPT !.field_mapping = [m.field_mapping EXCEPT ![j] = e2]]
             IN  cipher' = [cipher EXCEPT
                    !.tampered = {j},
                    !.files = FsWrite(cipher.files, HarnessSidecar, JsonFile(m2, 1))]
    /\ UNCHANGED <<documents_store, fs, sessions, pending, last>>

CipherDecrypt ==
    /\ cipher.phase = "encrypted"
    /\ \E p \in Passkeys :
          LET g == generate_decrypted_pdf(cipher.files, HarnessArtifact, p)
          IN  cipher' = [cipher EXCEPT
                            !.phase = "decrypted",
                            !.dpasskey = p,
                            !.result = <<decrypt_pii_fields(CipherMeta, p)>>,
                            !.restored = <<g.res>>,
                            !.files = g.files]
    /\ UNCHANGED <<documents_store, fs, sessions, pending, last>>

CipherInit ==
    /\ documents_store = <<>>
    /\ fs = <<>>
    /\ sessions = 0
    /\ pending = <<>>
    /\ last = None
    /\ \E in \in HarnessInputs : \E P \in StrongPasskeys :
          cipher = [CipherIdle EXCEPT
                        !.phase = "input", !.text = in[1], !.fields = in[2], !.passkey = P,
                        !.files = FsWrite(<<>>, HarnessSource, PdfFile(in[1], 0))]

CipherNext == CipherEncrypt \/ CipherTamper \/ CipherDecrypt

SpecCipher == CipherInit /\ [][CipherNext]_vars

-----------------------------------------------------------------------------
(* Claims on the field cipher *)

RECURSIVE ParseDecimal(_)
ParseDecimal(d) ==
    IF Len(d) = 0 THEN 0
    ELSE 10 * ParseDecimal(SubSeq(d, 1, Len(d) - 1))
         + (CHOOSE k \in 0..9 : Digit(k) = d[Len(d)])

\* the index written in a placeholder id
IdIndex(pid) == ParseDecimal(Tail(pid))

\* C1: decrypting the untouched metadata with the encrypting passkey gives a
\* mapping whose keys are the assigned placeholder ids and whose value at
\* the i-th field's id is the i-th original_value; the stored salt rederives
\* the encrypting key.
C1_RoundTrip ==
    (cipher.phase = "decrypted" /\ cipher.tampered = {} /\ cipher.dpasskey = cipher.passkey)
    => LET r == cipher.result[1]
           ef == CipherMeta.encrypted_fields
       IN  /\ IsOk(r)
           /\ DictKeys(ValueOf(r)) = {ef[i].placeholder_id : i \in 1..Len(ef)}
           /\ Len(ValueOf(r)) = Len(cipher.fields)
           /\ \A i \in 1..Len(cipher.fields) :
                 DictGet(ValueOf(r), ef[i].placeholder_id) = cipher.fields[i].original_value
           /\ generate_key_from_passkey(cipher.passkey, MetadataSalt(CipherMeta.salt))[1]
                 = generate_key_from_passkey(cipher.passkey, NoSalt)[1]

C1_Witness ==
    /\ cipher.phase = "decrypted" /\ cipher.tampered = {}
    /\ cipher.dpasskey = cipher.passkey
    /\ Len(cipher.fields) = 2
    /\ cipher.fields[1].original_value = cipher.fields[2].original_value
    /\ IsOk(cipher.result[1])

\* C3: decrypt_pii_fields returns the complete mapping or raises the one
\* authentication error; it raises it whenever a ciphertext fails
\* authentication (another passkey on a non-empty mapping, or an altered
\* ciphertext), and never returns a partial mapping or another error.
C3_AllOrNothing ==
    cipher.phase = "decrypted"
    => LET r == cipher.result[1]
           fm == CipherMeta.field_mapping
           authFails == \/ cipher.tampered # {}
                        \/ cipher.dpasskey # cipher.passkey /\ Len(fm) > 0
       IN  /\ authFails => r = Raise("ValueError", <<"Invalid passkey provided">>)
           /\ ~authFails =>
                 /\ IsOk(r)
                 /\ [j \in 1..Len(fm) |-> fm[j][1]]
                       = [j \in 1..Len(ValueOf(r)) |-> ValueOf(r)[j][1]]

C3_Witness ==
    /\ cipher.phase = "decrypted"
    /\ cipher.tampered # {}
    /\ cipher.dpasskey = cipher.passkey
    /\ Len(cipher.fields) = 2
    /\ cipher.result[1].kind = "ValueError"

\* C6: the mapping of a list of n fields has exactly n pairwise distinct
\* placeholder ids, the j-th of them carrying the index j (1-based), also
\* past 999 and with repeated original_value.
C6_PlaceholderIds ==
    cipher.phase \in {"encrypted", "decrypted"}
    => LET fm == CipherMeta.field_mapping
           ef == CipherMeta.encrypted_fields
       IN  /\ Len(fm) = Len(cipher.fields)
           /\ Len(ef) = Len(cipher.fields)
           /\ Cardinality(DictKeys(fm)) = Len(cipher.fields)
           /\ \A j \in 1..Len(fm) :
                 /\ fm[j][1][1] = "ENCRYPTED_FIELD_"
                 /\ IdIndex(fm[j][1]) = j
                 /\ ef[j].placeholder_id = fm[j][1]
                 /\ fm[j][2].original_value = cipher.fields[j].original_value

C6_Witness ==
    /\ cipher.phase = "encrypted"
    /\ Len(cipher.fields) > 1000
    /\ Len(CipherMeta.field_mapping) > 1000

Count(word, text) == Cardinality({i \in 1..Len(text) : text[i] = word})

\* C2: after generate_encrypted_pdf the page holds no occurrence of a
\* field's original_value and as many of the field's marker as the value
\* had occurrences; after generate_decrypted_pdf with the same passkey it
\* holds no marker, the value as often as before, and is the original page.
C2_SubstitutionOnRepeats ==
    (cipher.phase \in {"encrypted", "decrypted"} /\ cipher.tampered = {})
    => LET ef == CipherMeta.encrypted_fields
           redacted == cipher.files[HarnessArtifact].body
           Marker(j) == generate_placeholder_text(ef[j].placeholder_id, ef[j].type)
       IN  /\ \A j \in 1..Len(cipher.fields) :
                 /\ Count(cipher.fields[j].original_value, redacted) = 0
                 /\ Count(Marker(j), redacted)
                       = Count(cipher.fields[j].original_value, cipher.text)
           /\ (cipher.phase = "decrypted" /\ cipher.dpasskey = cipher.passkey)
              => /\ IsOk(cipher.restored[1])
                 /\ LET restored == cipher.files[HarnessRestored].body
                    IN  /\ \A j \in 1..Len(cipher.fields) :
                              /\ Count(Marker(j), restored) = 0
                              /\ Count(cipher.fields[j].original_value, restored)
                                    = Count(cipher.fields[j].original_value, cipher.text)
                        /\ restored = cipher.text

-----------------------------------------------------------------------------
(* Claims on the handlers *)

Sidecars == {p \in DOMAIN fs : fs[p].kind = "json"}

Ciphertexts(metadata) ==
    {metadata.field_mapping[j][2].encrypted_value : j \in 1..Len(metadata.field_mapping)}

\* C4: the metadata of two encrypt_pii_fields calls never share a salt or a
\* ciphertext.
C4_SaltUnique ==
    \A p, q \in Sidecars :
        fs[p].sid # fs[q].sid
        => /\ JsonLoad(fs[p].body).salt # JsonLoad(fs[q].body).salt
           /\ Ciphertexts(JsonLoad(fs[p].body)) \cap Ciphertexts(JsonLoad(fs[q].body)) = {}

\* the values a record of the sidecar holds in the clear
ClearText(rec) == IF "original_value" \in DOMAIN rec THEN {rec.original_value} ELSE {}

\* C5: a persisted sidecar holds the original_value of a redacted field in
\* encrypted form only.
C5_NoPlaintextInSidecar ==
    \A p \in Sidecars :
        LET m == JsonLoad(fs[p].body)
        IN  /\ \A j \in 1..Len(m.field_mapping) : ClearText(m.field_mapping[j][2]) = {}
            /\ \A j \in 1..Len(m.encrypted_fields) : ClearText(m.encrypted_fields[j]) = {}

\* C7: a record whose encrypted_path is set refers to a redacted artifact
\* whose sidecar exists and comes from the same redaction session.
C7_CommittedPair ==
    \A d \in DOMAIN documents_store :
        documents_store[d].encrypted_path # None
        => LET a == documents_store[d].encrypted_path[1]
           IN  /\ Exists(fs, a)
               /\ Exists(fs, MetadataPath(a))
               /\ fs[a].sid # 0 => fs[MetadataPath(a)].sid = fs[a].sid

\* an analyze, redact or restore handler ran on document d in this step
HandlerRanOn(d) ==
    /\ last' # last
    /\ last'[1].op \in {"analyze", "encrypt", "decrypt"}
    /\ last'[1].doc = d

\* an operation on d has returned its response and the response is unsent
Unfinished(d) == \E k \in 1..Len(pending) : pending[k].doc = d

\* C8: while an operation on document d is unfinished, no other operation
\* on d reads or writes its record, artifact or sidecar.
C8_Serialized ==
    [][\A d \in DOMAIN documents_store : Unfinished(d) => ~HandlerRanOn(d)]_vars

\* C9: once d is redacted, its sidecar and its artifact change only in a
\* redact of d.
C9_Immutable ==
    [][\A d \in DOMAIN documents_store :
          documents_store[d].encrypted_path # None
          => LET a == documents_store[d].encrypted_path[1]
             IN  \/ fs'[a] = fs[a] /\ fs'[MetadataPath(a)] = fs[MetadataPath(a)]
                 \/ sessions' # sessions /\ last'[1].op = "encrypt" /\ last'[1].doc = d]_vars

\* C10: when analyze, redact or restore of an existing document has failed,
\* the record's status is the failed state.
C10_FailureRecorded ==
    (/\ last # None
     /\ last[1].op \in {"analyze", "encrypt", "decrypt"}
     /\ last[1].code # 200
     /\ last[1].doc \in DOMAIN documents_store)
    => documents_store[last[1].doc].status = "error"

-----------------------------------------------------------------------------
(* Claims on the lifecycle and the responses *)

\* the lifecycle's transitions in the status values of main.py: "encrypted"
\* is the redacted state, "decrypted" the restored one, "error" the failed one
LifecycleSteps ==
    {<<"uploaded", "analyzed">>, <<"analyzed", "encrypted">>,
     <<"encrypted", "decrypted">>, <<"decrypted", "decrypted">>}

\* C11: every change of a record's status is uploaded -> analyzed,
\* analyzed -> redacted, redacted -> restored, restored -> restored, or a
\* change to failed; no other one occurs.
C11_Lifecycle ==
    [][\A d \in DOMAIN documents_store :
          LET old == documents_store[d].status
              new == documents_store'[d].status
          IN  \/ new = old
              \/ new = "error"
              \/ <<old, new>> \in LifecycleSteps]_vars

\* a restore (a redact) handler ran on document d in this step
RestoreRanOn(d) == HandlerRanOn(d) /\ last'[1].op = "decrypt"

RedactRanOn(d) == HandlerRanOn(d) /\ last'[1].op = "encrypt"

\* the record has no redacted artifact, or the artifact has no sidecar
NoSidecar(d) ==
    \/ documents_store[d].encrypted_path = None
    \/ ~Exists(fs, MetadataPath(documents_store[d].encrypted_path[1]))

\* C12: a restore of a document without a redacted artifact or without a
\* sidecar ends in 404 for every passkey and writes no file.
C12_MissingMetadata ==
    [][\A d \in DOMAIN documents_store :
          (RestoreRanOn(d) /\ NoSidecar(d))
          => /\ last'[1].code = 404
             /\ fs' = fs]_vars

\* C13: a redact with a passkey shorter than 8 characters, or of a document
\* whose detected-fields list is null or empty, ends in 400 before any
\* encryption: no file is written, no encrypt_pii_fields call is made and
\* the record's encrypted_path stays.
C13_RedactPreconditions ==
    [][\A d \in DOMAIN documents_store :
          (/\ RedactRanOn(d)
           /\ \/ Len(last'[1].passkey) < MinPasskeyLen
              \/ documents_store[d].detected_pii \in {None, <<<<>>>>})
          => /\ last'[1].code = 400
             /\ fs' = fs
             /\ sessions' = sessions
             /\ documents_store'[d].encrypted_path = documents_store[d].encrypted_path]_vars

\* the passkey the sidecar's ciphertexts were made with (read off the key of
\* the first token; all tokens of a sidecar carry the same key)
SidecarPasskey(metadata) ==
    B64Decode(metadata.field_mapping[1][2].encrypted_value).key[2].passkey

\* d is redacted, its sidecar exists with a non-empty field mapping, and
\* passkey is not the one the sidecar was made with
WrongPasskeyFor(d, passkey) ==
    /\ documents_store[d].encrypted_path # None
    /\ LET metadata_path == MetadataPath(documents_store[d].encrypted_path[1])
       IN  /\ Exists(fs, metadata_path)
           /\ Len(JsonLoad(fs[metadata_path].body).field_mapping) > 0
           /\ passkey # SidecarPasskey(JsonLoad(fs[metadata_path].body))

ListedAttributes ==
    {"type", "value", "confidence", "location", "encrypted", "detection_method"}

\* C15: the response of GET /documents holds, for every detected field of
\* every record, the masked preview and non-sensitive attributes only: no
\* original_value and no ciphertext.
C15_ListingMasked ==
    \A d \in DOMAIN get_documents.documents :
        LET rec == get_documents.documents[d]
        IN  rec.detected_pii # None
            => \A j \in 1..Len(rec.detected_pii[1]) :
                  /\ ClearText(rec.detected_pii[1][j]) = {}
                  /\ DOMAIN rec.detected_pii[1][j] \subseteq ListedAttributes

\* an upload created a record in this step
UploadRan == Len(documents_store') > Len(documents_store)

\* C16: an upload creates its record under an id no existing record holds
\* and leaves every existing record, and the source file each existing
\* record's original_path refers to, unchanged.
C16_UploadIsolation ==
    [][UploadRan
       => /\ documents_store'[Len(documents_store')].id
                \notin {documents_store[d].id : d \in DOMAIN documents_store}
          /\ \A d \in DOMAIN documents_store :
                /\ documents_store'[d] = documents_store[d]
                /\ fs'[documents_store[d].original_path]
                      = fs[documents_store[d].original_path]]_vars

====
